---------------------------- MODULE Spec2Model ----------------------------
(***************************************************************************)
(* A model of the ReNova admin console: the step-list editor and the       *)
(* work-type catalog of src/src/app/steps/page.tsx, and the member         *)
(* endpoints (list, cancel-at-period-end) of the API routes.               *)
(*                                                                         *)
(* The specifications share the variables; each keeps the variables of the *)
(* other parts unchanged:                                                  *)
(*   SpecEditor   one editing session on the Template of one work type,    *)
(*                with saves                                               *)
(*   SpecEdit     load, add, delete and reorder of that session, with the  *)
(*                arguments of delete and reorder recorded                 *)
(*   SpecLoad     the load of any stored Template content                  *)
(*   SpecCatalog  the code and template collections and the merged view    *)
(*   SpecMembers  the member endpoints against the member collection       *)
(***************************************************************************)
EXTENDS Integers, Sequences, FiniteSets, TLC

VARIABLES
    stored,     \* the Template document of the selected work type (Firestore)
    steps,      \* useState<Step[]>: the in-memory step list
    title,      \* useState title: the title field of the editor
    last,       \* the handler that ran last, with its arguments and outcome
    codes,      \* collection proclinkWorkTypeCodes: id -> document
    templates,  \* collection publicWorkTemplates: id -> document
    codesMap,   \* useState codesMap of the session (onSnapshot listener)
    templatesMeta, \* useState templatesMeta of the session
    clast,      \* the catalog handler that ran last
    members,    \* collection reNovaMember: document id -> document
    subs,       \* the billing provider's subscriptions
    users,      \* the identity provider's accounts
    renovaUsers, \* collection renovaUsers: document id -> document
    adminEnv,   \* process.env.RENOVA_ADMIN_UIDS
    mlast,      \* the endpoint call that ran last, with request and response
    workTypeId, \* useState workTypeId: the selected work type
    loading,    \* useState loading of the template editor
    inflight,   \* the work types whose load has not answered yet
    loadedFrom  \* the work type whose Template the last answered load read

editorVars  == <<stored, steps, title, last>>
catalogVars == <<codes, templates, codesMap, templatesMeta, clast>>
memberVars  == <<members, subs, users, renovaUsers, adminEnv, mlast>>
selectVars  == <<workTypeId, loading, inflight, loadedFrom>>
vars == <<stored, steps, title, last, codes, templates, codesMap, templatesMeta,
          clast, members, subs, users, renovaUsers, adminEnv, mlast,
          workTypeId, loading, inflight, loadedFrom>>

-----------------------------------------------------------------------------
(* Bounds *)

\* longest in-memory step list of SpecEdit (onAddStep is not taken beyond it)
MaxSteps == 3
\* longest in-memory step list of SpecEditor, which also saves
MaxDraft == 2
\* longest stored steps array drawn for SpecLoad
MaxStored == 2
\* largest stored order value drawn
MaxOrder == 2

-----------------------------------------------------------------------------
(* Strings.  A step name is a sequence of characters, so that trim() is     *)
(* computed and not assumed.                                                *)

Space == " "

RECURSIVE TrimStart(_)
TrimStart(s) ==
    IF s = <<>> THEN <<>>
    ELSE IF Head(s) = Space THEN TrimStart(Tail(s)) ELSE s

RECURSIVE TrimEnd(_)
TrimEnd(s) ==
    IF s = <<>> THEN <<>>
    ELSE IF s[Len(s)] = Space THEN TrimEnd(SubSeq(s, 1, Len(s) - 1)) ELSE s

\* a trim that forgets the trailing white space
TrimStartOnly(s) == TrimStart(s)

\* String.prototype.trim
Trim(s) == TrimEnd(TrimStart(s))

\* the names a user types into a step row
Names == { <<>>, <<" ">>, <<" ", "a", " ">>, <<"b">> }


-----------------------------------------------------------------------------
(* JavaScript values of a stored document.  A stored field is a tagged      *)
(* value: Firestore holds whatever some client wrote, and load parses it    *)
(* as Record<string, unknown>.                                              *)

Undef  == [t |-> "undefined"]
NotNum == [t |-> "nan"]          \* a value that Number() turns into NaN
Str(s) == [t |-> "string", v |-> s]
Num(n) == [t |-> "number", v |-> n]

\* the in-memory NaN (a number that is not finite)
NaN == -1000000
IsFinite(n) == n # NaN

\* uid(): a random id; modelled as the first pool id that is not in use
UidPool == <<"u1", "u2", "u3", "u4", "u5", "u6", "u7", "u8", "u9", "u10">>
uid(used) ==
    UidPool[CHOOSE i \in 1..Len(UidPool) :
                /\ UidPool[i] \notin used
                /\ \A j \in 1..(i - 1) : UidPool[j] \in used]

Ids(s)     == [i \in 1..Len(s) |-> s[i].id]
NamesOf(s) == [i \in 1..Len(s) |-> s[i].name]
Orders(s)  == [i \in 1..Len(s) |-> s[i].order]
IdSet(s)   == { s[i].id : i \in 1..Len(s) }

\* the ids of a stored steps array that are strings
StoredIdSet(raw) == { raw[i].id.v : i \in { j \in 1..Len(raw) : raw[j].id.t = "string" } }

-----------------------------------------------------------------------------
(* The step-list functions of page.tsx *)

\* s.id || uid(), for each step in array order
RECURSIVE CoerceIds(_, _)
CoerceIds(s, used) ==
    IF s = <<>> THEN <<>>
    ELSE LET id == IF Head(s).id = "" THEN uid(used) ELSE Head(s).id
         IN  <<[Head(s) EXCEPT !.id = id]>> \o CoerceIds(Tail(s), used \cup {id})

\* Number.isFinite(s.order) ? s.order : 0
FiniteOrZero(s) ==
    [i \in 1..Len(s) |-> [s[i] EXCEPT !.order = IF IsFinite(@) THEN @ ELSE 0]]

\* a renumbering that keeps the order each step carried
NumberByIndexKeep(s) == s

\* .map((s, i) => ({ ...s, order: i + 1 }))
NumberByIndex(s) == [i \in 1..Len(s) |-> [s[i] EXCEPT !.order = i]]

renumberByArrayOrder(s, used) ==
    NumberByIndex(FiniteOrZero(CoerceIds(s, used)))

\* Array.prototype.sort with (a, b) => a.order - b.order: a stable sort
RECURSIVE InsertByOrder(_, _)
InsertByOrder(x, s) ==
    IF s = <<>> THEN <<x>>
    ELSE IF Head(s).order <= x.order
         THEN <<Head(s)>> \o InsertByOrder(x, Tail(s))
         ELSE <<x>> \o s

\* the comparator turned round: (a, b) => b.order - a.order
RECURSIVE InsertByOrderDesc(_, _)
InsertByOrderDesc(x, s) ==
    IF s = <<>> THEN <<x>>
    ELSE IF Head(s).order >= x.order
         THEN <<Head(s)>> \o InsertByOrderDesc(x, Tail(s))
         ELSE <<x>> \o s

RECURSIVE SortByOrderDesc(_)
SortByOrderDesc(s) ==
    IF s = <<>> THEN <<>>
    ELSE InsertByOrderDesc(s[Len(s)], SortByOrderDesc(SubSeq(s, 1, Len(s) - 1)))

RECURSIVE SortByOrder(_)
SortByOrder(s) ==
    IF s = <<>> THEN <<>>
    ELSE InsertByOrder(s[Len(s)], SortByOrder(SubSeq(s, 1, Len(s) - 1)))

renumberFromOrder(s, used) ==
    LET coerced == FiniteOrZero(CoerceIds(s, used))
        sorted  == SortByOrder(coerced)
    IN  renumberByArrayOrder(sorted, used \cup IdSet(coerced))

NonEmptyName(x) == Len(x.name) > 0

normalizeStepsForSave(s, used) ==
    LET coerced == FiniteOrZero(CoerceIds(s, used))
        trimmed == [i \in 1..Len(coerced) |->
                       [coerced[i] EXCEPT !.name = Trim(@)]]
        cleaned == SelectSeq(trimmed, NonEmptyName)
    IN  NumberByIndex(cleaned)

\* arrayMove of @dnd-kit/sortable: remove at from, insert at to (1-based here)
RemoveAt(s, i) == SubSeq(s, 1, i - 1) \o SubSeq(s, i + 1, Len(s))
InsertAt(s, i, x) == SubSeq(s, 1, i - 1) \o <<x>> \o SubSeq(s, i, Len(s))
\* an exchange of the two entries in place of a move
arraySwap(s, from, to) ==
    [k \in 1..Len(s) |-> IF k = from THEN s[to] ELSE IF k = to THEN s[from] ELSE s[k]]

arrayMove(s, from, to) == InsertAt(RemoveAt(s, from), to, s[from])

\* Array.prototype.findIndex, 1-based; 0 when not found
findIndex(s, id) ==
    IF id \in IdSet(s)
    THEN CHOOSE i \in 1..Len(s) : s[i].id = id /\ \A j \in 1..(i - 1) : s[j].id # id
    ELSE 0

-----------------------------------------------------------------------------
(* The step-list editor: one session on the Template of one work type *)

\* a step as Firestore holds it after setDoc wrote it
ToStored(x) == [id |-> Str(x.id), name |-> Str(x.name), order |-> Num(x.order)]
StoredSteps(s) == [i \in 1..Len(s) |-> ToStored(s[i])]

\* a Template document: its steps, its title (Undef when the field is
\* missing) and who wrote it
NoDoc == [exists |-> FALSE, steps |-> <<>>, title |-> Undef, by |-> "none"]
TitledDoc(raw, t, by) == [exists |-> TRUE, steps |-> raw, title |-> t, by |-> by]
Doc(raw, by) == TitledDoc(raw, Undef, by)

\* selectedWork?.label ?? workTypeId of the selected work type
WorkLabel == <<"w">>
\* String(data.title ?? selectedWork?.label ?? workTypeId), and the fallback
\* title when the document does not exist
LoadedTitle(doc) ==
    IF doc.exists /\ doc.title.t = "string" THEN doc.title.v ELSE WorkLabel
\* String(title || selectedWork?.label || workTypeId).trim()
fixedTitle(t) == Trim(IF t # <<>> THEN t ELSE WorkLabel)

\* an id that names no step, and the drop target of a drag that ended
\* outside every row (event.over is null)
NoSuchId == "zz"
NoOver   == "<null>"

Last(op, id, over, res) == [op |-> op, id |-> id, over |-> over, res |-> res]

\* the ids of the list in memory: uid() collides with none of them
UsedIds == IdSet(steps)

\* obj.id ?? uid(), obj.name ?? "", Number(obj.order ?? 0), in array order
RECURSIVE ParseRaw(_, _)
ParseRaw(raw, used) ==
    IF raw = <<>> THEN <<>>
    ELSE LET x  == Head(raw)
             id == IF x.id.t = "undefined" THEN uid(used) ELSE x.id.v
             nm == IF x.name.t = "undefined" THEN <<>> ELSE x.name.v
             od == CASE x.order.t = "undefined" -> 0
                     [] x.order.t = "nan"       -> NaN
                     [] OTHER                   -> x.order.v
         IN  <<[id |-> id, name |-> nm, order |-> od]>>
                 \o ParseRaw(Tail(raw), used \cup {id})

\* a filter that forgets to trim
NonBlankNameNoTrim(x) == Len(x.name) > 0

\* .filter((s) => s.name.trim().length > 0)
NonBlankName(x) == Len(Trim(x.name)) > 0

\* what load puts into the step list for a stored document
LoadedSteps(doc, used) ==
    IF ~doc.exists THEN <<>>
    ELSE LET parsed == SelectSeq(ParseRaw(doc.steps, used), NonBlankName)
         IN  renumberFromOrder(parsed, used \cup IdSet(parsed))

\* useEffect on workTypeId: load
Load ==
    /\ steps' = LoadedSteps(stored, StoredIdSet(stored.steps))
    /\ title' = LoadedTitle(stored)
    /\ UNCHANGED <<stored, catalogVars, memberVars, selectVars>>

onAddStep(max) ==
    /\ Len(steps) < max
    /\ steps' = renumberByArrayOrder(
                    Append(steps, [id |-> uid(UsedIds), name |-> <<>>,
                                   order |-> Len(steps) + 1]),
                    UsedIds)
    /\ UNCHANGED <<stored, title, catalogVars, memberVars, selectVars>>

onDeleteStep(id) ==
    /\ steps' = renumberByArrayOrder(
                    SelectSeq(steps, LAMBDA x : x.id # id), UsedIds)
    /\ UNCHANGED <<stored, title, catalogVars, memberVars, selectVars>>

onChangeName(id, v) ==
    /\ steps' = [i \in 1..Len(steps) |->
                    IF steps[i].id = id THEN [steps[i] EXCEPT !.name = v]
                    ELSE steps[i]]
    /\ UNCHANGED <<stored, title, catalogVars, memberVars, selectVars>>

onDragEnd(active, over) ==
    /\ steps' =
          IF over = NoOver \/ active = over THEN steps
          ELSE LET oldIndex == findIndex(steps, active)
                   newIndex == findIndex(steps, over)
               IN  IF oldIndex = 0 \/ newIndex = 0 THEN steps
                   ELSE renumberByArrayOrder(
                            arrayMove(steps, oldIndex, newIndex), UsedIds)
    /\ UNCHANGED <<stored, title, catalogVars, memberVars, selectVars>>

\* res: "write_failed" (the Template setDoc throws), "failed_after_write" (a
\* later await throws: the code label setDoc or the getDoc), "saved".
\* Without a logged-in user requireLogin returns and nothing changes: a
\* stuttering step.
SaveResults == {"write_failed", "failed_after_write", "saved"}

\* setDoc(template, {workTypeId, title, steps, updatedAt}, {merge: false})
SavedDocAppend(list, t, by) ==
    TitledDoc(stored.steps \o StoredSteps(normalizeStepsForSave(list, IdSet(list))),
              Str(fixedTitle(t)), by)
SavedDoc(list, t, by) ==
    TitledDoc(StoredSteps(normalizeStepsForSave(list, IdSet(list))), Str(fixedTitle(t)), by)

\* the title input: onChange={(e) => setTitle(e.target.value)}
Titles == { <<>>, <<" ">>, <<" ", "t">> }
setTitle(v) ==
    /\ title' = v
    /\ UNCHANGED <<stored, steps, catalogVars, memberVars, selectVars>>

onSaveTemplateReload(res) ==
    /\ stored' = IF res \in {"saved", "failed_after_write"}
                 THEN SavedDoc(steps, title, "save")
                 ELSE stored
    /\ steps' = IF res = "saved" THEN steps
                ELSE LoadedSteps(stored', StoredIdSet(stored'.steps))
    /\ title' = IF res = "saved" THEN title ELSE LoadedTitle(stored')
    /\ UNCHANGED <<catalogVars, memberVars, selectVars>>

onSaveTemplate(res) ==
    /\ stored' = IF res \in {"saved", "failed_after_write"}
                 THEN SavedDoc(steps, title, "save")
                 ELSE stored
    /\ UNCHANGED <<steps, title, catalogVars, memberVars, selectVars>>

\* what another session that loaded the same Template holds in memory
\* when it saves
OtherLists ==
    { << [id |-> "u9", name |-> <<" ", "a", " ">>, order |-> 7] >>,
      << [id |-> "u9", name |-> <<" ">>, order |-> 1],
         [id |-> "u1", name |-> <<"b">>, order |-> 2] >> }
\* onSaveTemplate of that session: the same write from its own state
otherSave(list, t) ==
    /\ stored' = SavedDoc(list, t, "other")
    /\ UNCHANGED <<steps, title, catalogVars, memberVars, selectVars>>

ArgIds == IdSet(steps) \cup {NoSuchId}

\* stored Template documents an editing session starts from: none, an
\* empty one, the out-of-order one of the specification, legacy entries
\* with missing fields and blank names, and two entries under one id
OutOfOrderDoc ==
    Doc(<<[id |-> Str("u2"), name |-> Str(<<"b">>), order |-> Num(2)],
          [id |-> Str("u1"), name |-> Str(<<" ", "a", " ">>), order |-> Num(1)]>>,
        "legacy")
LegacyDoc ==
    Doc(<<[id |-> Undef, name |-> Str(<<"b">>), order |-> Undef],
          [id |-> Str(""), name |-> Str(<<" ">>), order |-> NotNum]>>,
        "legacy")
SameIdDoc ==
    Doc(<<[id |-> Str("u1"), name |-> Str(<<"b">>), order |-> Num(1)],
          [id |-> Str("u1"), name |-> Str(<<" ", "a", " ">>), order |-> Num(2)]>>,
        "legacy")
SeedDocs == { NoDoc, Doc(<<>>, "legacy"), OutOfOrderDoc, LegacyDoc, SameIdDoc }

\* last is a history variable: the handler that ran last and, in SpecEdit,
\* its arguments.  It is set beside each handler, which does not read it.
Did(op) == last' = Last(op, "", "", "ok")

\* the handlers that change which entries the list holds and where
EditNext ==
    \/ Load /\ Did("load")
    \/ onAddStep(MaxSteps) /\ Did("add")
    \/ \E id \in ArgIds :
          onDeleteStep(id) /\ last' = Last("delete", id, "", "ok")
    \/ \E a \in ArgIds, o \in ArgIds \cup {NoOver} :
          onDragEnd(a, o) /\ last' = Last("reorder", a, o, "ok")

\* the same handlers and save
\* what the user types into a name input in the editor scenario
EditorNames == Names \ { <<>>, <<"b">> }
EditorNext ==
    \/ Load /\ Did("load")
    \/ onAddStep(MaxDraft) /\ Did("add")
    \/ \E id \in IdSet(steps) : onDeleteStep(id) /\ Did("delete")
    \/ \E id \in IdSet(steps), v \in EditorNames : onChangeName(id, v) /\ Did("rename")
    \/ \E a \in IdSet(steps), o \in IdSet(steps) : onDragEnd(a, o) /\ Did("reorder")
    \/ \E res \in SaveResults :
          onSaveTemplate(res) /\ last' = Last("save", "", "", res)

EditInit ==
    /\ stored \in { OutOfOrderDoc, SameIdDoc }
    /\ steps = <<>>
    /\ title = <<>>
    /\ last = Last("init", "", "", "ok")
    /\ codes = <<>> /\ templates = <<>> /\ codesMap = <<>>
    /\ templatesMeta = <<>> /\ clast = <<>>
    /\ members = <<>> /\ subs = <<>> /\ mlast = <<>>
    /\ users = <<>> /\ renovaUsers = <<>> /\ adminEnv = <<>>
    /\ workTypeId = "" /\ loading = FALSE /\ inflight = {} /\ loadedFrom = ""

EditorInit ==
    /\ stored \in SeedDocs
    /\ steps = <<>>
    /\ title = <<>>
    /\ last = Last("init", "", "", "ok")
    /\ codes = <<>> /\ templates = <<>> /\ codesMap = <<>>
    /\ templatesMeta = <<>> /\ clast = <<>>
    /\ members = <<>> /\ subs = <<>> /\ mlast = <<>>
    /\ users = <<>> /\ renovaUsers = <<>> /\ adminEnv = <<>>
    /\ workTypeId = "" /\ loading = FALSE /\ inflight = {} /\ loadedFrom = ""

\* any stored Template content of at most MaxStored steps
RawIds    == { Undef, Str(""), Str("u1"), Str("u2") }
RawNames  == { Undef, Str(<<" ">>), Str(<<" ", "a", " ">>) }
RawOrders == { Undef, NotNum } \cup { Num(n) : n \in (-1)..MaxOrder }
RawSteps  == [id : RawIds, name : RawNames, order : RawOrders]
RawDocs   ==
    { NoDoc } \cup
    { Doc(raw, "legacy") :
        raw \in UNION { [1..n -> RawSteps] : n \in 0..MaxStored } }

LoadInit ==
    /\ stored \in RawDocs
    /\ steps = <<>>
    /\ title = <<>>
    /\ last = Last("init", "", "", "ok")
    /\ codes = <<>> /\ templates = <<>> /\ codesMap = <<>>
    /\ templatesMeta = <<>> /\ clast = <<>>
    /\ members = <<>> /\ subs = <<>> /\ mlast = <<>>
    /\ users = <<>> /\ renovaUsers = <<>> /\ adminEnv = <<>>
    /\ workTypeId = "" /\ loading = FALSE /\ inflight = {} /\ loadedFrom = ""

LoadNext == Load /\ Did("load")

SpecLoad == LoadInit /\ [][LoadNext]_vars

SpecEdit == EditInit /\ [][EditNext]_vars

SpecEditor == EditorInit /\ [][EditorNext]_vars

\* two sessions on one Template: this one loads, retypes names and the title
\* and saves; the other one saves what it holds.  A save records in last
\* who had written the Template it replaces.
SaveNames == Names \ { <<>>, <<" ", "a", " ">> }
SaveNext ==
    \/ Load /\ Did("load")
    \/ \E id \in IdSet(steps), v \in SaveNames : onChangeName(id, v) /\ Did("rename")
    \/ \E v \in Titles : setTitle(v) /\ Did("title")
    \/ \E res \in SaveResults :
          onSaveTemplate(res) /\ last' = [op |-> "save", id |-> "", over |-> "",
                                          res |-> res, prev |-> stored.by]
    \/ \E list \in OtherLists, t \in Titles :
          otherSave(list, t) /\ last' = [op |-> "other_save", id |-> "", over |-> "",
                                         res |-> "saved", list |-> list, title |-> t]

SaveInit ==
    /\ stored \in { NoDoc, OutOfOrderDoc }
    /\ steps = <<>>
    /\ title = <<>>
    /\ last = Last("init", "", "", "ok")
    /\ codes = <<>> /\ templates = <<>> /\ codesMap = <<>>
    /\ templatesMeta = <<>> /\ clast = <<>>
    /\ members = <<>> /\ subs = <<>> /\ mlast = <<>>
    /\ users = <<>> /\ renovaUsers = <<>> /\ adminEnv = <<>>
    /\ workTypeId = "" /\ loading = FALSE /\ inflight = {} /\ loadedFrom = ""

SpecSave == SaveInit /\ [][SaveNext]_vars

-----------------------------------------------------------------------------
(* Claims on the step-list editor *)

SaveWrote == last.op = "save" /\ last.res \in {"saved", "failed_after_write"}

\* a name of white space only (the empty name too)
IsBlank(s) == \A i \in 1..Len(s) : s[i] = Space

\* t is s without its leading and trailing white space
IsTrimOf(t, s) ==
    /\ t # <<>> => t[1] # Space /\ t[Len(t)] # Space
    /\ \E a \in 0..Len(s) :
          /\ a + Len(t) <= Len(s)
          /\ SubSeq(s, a + 1, a + Len(t)) = t
          /\ \A i \in 1..Len(s) : (i <= a \/ i > a + Len(t)) => s[i] = Space

\* the indices of a list whose name is not empty once trimmed
KeptIndices(s) == { i \in 1..Len(s) : ~IsBlank(s[i].name) }

\* f lists the members of set S of indices in ascending order
Ascending(f, n, S) ==
    /\ { f[k] : k \in 1..n } = S
    /\ \A a, b \in 1..n : a < b => f[a] < f[b]

\* C1: in memory every step's order is its 1-based array position, after
\* load and after any sequence of add, delete, reorder and rename; and every
\* step list that save persisted has order equal to position.
C1_OrderIsPosition ==
    /\ \A i \in 1..Len(steps) : steps[i].order = i
    /\ stored.by = "save" =>
          \A i \in 1..Len(stored.steps) :
              stored.steps[i].order.t = "number" /\ stored.steps[i].order.v = i

\* a delete left one step of a list whose saved form holds two
C1_Witness ==
    /\ last.op = "delete"
    /\ Len(steps) = 1 /\ steps[1].order = 1
    /\ stored.by = "save" /\ Len(stored.steps) = 2

\* C2: a load that follows a save yields the name sequence that the save
\* persisted, and saving the loaded list again persists that same sequence.
C2_RoundTrip ==
    (last.op = "load" /\ stored.by = "save") =>
        LET persisted == [i \in 1..Len(stored.steps) |-> stored.steps[i].name.v]
        IN  /\ NamesOf(steps) = persisted
            /\ NamesOf(normalizeStepsForSave(steps, UsedIds)) = persisted

\* a saved list of two different names was loaded again
C2_Witness ==
    /\ last.op = "load" /\ stored.by = "save"
    /\ Len(steps) = 2 /\ steps[1].name # steps[2].name

\* C3: save persists exactly the steps whose trimmed name is not empty, with
\* the name trimmed, in their array order, numbered 1..N by that position.
C3_SavePersistsKept ==
    SaveWrote =>
        LET p == stored.steps
            n == Len(p)
        IN  /\ stored.exists
            /\ n = Cardinality(KeptIndices(steps))
            /\ \E f \in [1..n -> 1..Len(steps)] :
                  /\ Ascending(f, n, KeptIndices(steps))
                  /\ \A k \in 1..n :
                        /\ p[k].id.t = "string" /\ p[k].id.v = steps[f[k]].id
                        /\ p[k].name.t = "string"
                        /\ IsTrimOf(p[k].name.v, steps[f[k]].name)
                        /\ p[k].name.v # <<>>
                        /\ p[k].order.t = "number" /\ p[k].order.v = k

\* a save dropped a blank first step: the second step, which carried order
\* 2 and an untrimmed name, was persisted alone with order 1
C3_Witness ==
    /\ SaveWrote
    /\ Len(steps) = 2
    /\ IsBlank(steps[1].name)
    /\ steps[2].name = <<" ", "a", " ">> /\ steps[2].order = 2
    /\ Len(stored.steps) = 1
    /\ stored.steps[1].name.v = <<"a">> /\ stored.steps[1].order.v = 1

\* a stored step's name and sort key as the claims read them
RawNameOf(x) == IF x.name.t = "string" THEN x.name.v ELSE <<>>
RawKeyOf(x)  == IF x.order.t = "number" THEN x.order.v ELSE 0

\* C4: load of an existing Template drops the stored steps whose trimmed
\* name is empty, orders the rest by stored order ascending (a missing or
\* non-numeric order counts as 0) and numbers them 1..N by that position.
C4_LoadSortsByStoredOrder ==
    (last.op = "load" /\ stored.exists) =>
        LET raw  == stored.steps
            kept == { i \in 1..Len(raw) : ~IsBlank(RawNameOf(raw[i])) }
            n    == Len(steps)
        IN  /\ n = Cardinality(kept)
            /\ \E f \in [1..n -> 1..Len(raw)] :
                  /\ { f[k] : k \in 1..n } = kept
                  /\ \A k \in 1..n :
                        /\ steps[k].name = RawNameOf(raw[f[k]])
                        /\ steps[k].order = k
                        /\ (raw[f[k]].id.t = "string" /\ raw[f[k]].id.v # "")
                              => steps[k].id = raw[f[k]].id.v
                        /\ k < n => RawKeyOf(raw[f[k]]) <= RawKeyOf(raw[f[k + 1]])

\* the stored [{id: u2, order: 2}, {id: u1, order: 1}] was loaded as
\* [u1, u2] with orders [1, 2]
C4_Witness ==
    /\ last.op = "load"
    /\ stored.exists /\ Len(stored.steps) = 2
    /\ stored.steps[1].id = Str("u2") /\ stored.steps[1].order = Num(2)
    /\ stored.steps[2].id = Str("u1") /\ stored.steps[2].order = Num(1)
    /\ Ids(steps) = <<"u1", "u2">> /\ Orders(steps) = <<1, 2>>

\* the first position of an id in a list; 0 when no step has it
PosOf(s, id) ==
    IF \E i \in 1..Len(s) : s[i].id = id
    THEN CHOOSE i \in 1..Len(s) :
            s[i].id = id /\ \A j \in 1..Len(s) : s[j].id = id => i <= j
    ELSE 0

\* the position an entry of the moved list came from (move of i to j)
MovedFrom(k, i, j) ==
    IF k = j THEN i
    ELSE IF i < j THEN (IF k < i THEN k ELSE IF k < j THEN k + 1 ELSE k)
    ELSE (IF k < j THEN k ELSE IF k <= i THEN k - 1 ELSE k)

\* C5: a drag of the id at position i onto the id at position j, i # j, moves
\* that entry to j, shifts the entries in between by one, keeps every id and
\* name and renumbers 1..N; without a drop target, with equal ids or with an
\* id that is not in the list, the list is unchanged.
C5_ReorderMoves ==
    [][ last'.op = "reorder" =>
          LET i == PosOf(steps, last'.id)
              j == PosOf(steps, last'.over)
          IN  IF last'.over = NoOver \/ last'.id = last'.over \/ i = 0 \/ j = 0
              THEN steps' = steps
              ELSE /\ Len(steps') = Len(steps)
                   /\ \A k \in 1..Len(steps) :
                         /\ steps'[k].order = k
                         /\ steps'[k].id = steps[MovedFrom(k, i, j)].id
                         /\ steps'[k].name = steps[MovedFrom(k, i, j)].name
      ]_vars

\* a drag in a list of three different ids left the dragged entry last and
\* the drop target before it
C5_Witness ==
    /\ last.op = "reorder"
    /\ Len(steps) = 3 /\ Cardinality(IdSet(steps)) = 3
    /\ last.id = steps[3].id /\ last.over = steps[2].id
    /\ Orders(steps) = <<1, 2, 3>>

\* C6: delete of an id removes the entry with that id, keeps every other
\* entry's id, name and relative order, and numbers the N-1 survivors
\* 1..N-1; delete of an id that is not in the list changes nothing.
C6_DeleteRemovesOne ==
    [][ last'.op = "delete" =>
          LET i == PosOf(steps, last'.id)
          IN  IF i = 0 THEN steps' = steps
              ELSE /\ Len(steps') = Len(steps) - 1
                   /\ \A k \in 1..Len(steps') :
                         LET src == IF k < i THEN k ELSE k + 1
                         IN  /\ steps'[k].order = k
                             /\ steps'[k].id = steps[src].id
                             /\ steps'[k].name = steps[src].name
      ]_vars


-----------------------------------------------------------------------------
(* The work-type catalog: the two collections, the view one session holds  *)
(* of them, and the catalog handlers.  Another session runs the same       *)
(* handlers on the same collections; its own view is the one a session     *)
(* holds right after a snapshot and a template reload.                     *)

\* handler calls and listener deliveries in one run of the catalog (each add
\* or import raises the largest order, so the runs are cut by length)
MaxCalls == 3

Labels == { "A", "B" }
\* templates that were stored before the code list existed
LegacyIds == { "t1" }
\* the ids doc(collection(db, COL_CODES)) may draw
AutoIdSeq == <<"n1">>
AutoIds == { AutoIdSeq[i] : i \in 1..Len(AutoIdSeq) }
CatIds == LegacyIds \cup AutoIds
\* document ids in the order getDocs returns them (by document id)
DocIdSeq == <<"n1", "t1">>
\* the strings that occur as labels, in the order localeCompare(_, "ja") gives
CollationSeq == <<"A", "B", "n1", "t1">>
\* the order a row gets when its id has no code entry
NoCodeOrder == 999999

CodeFields == { "label", "order", "enabled" }
NoCode == [exists |-> FALSE, fields |-> {}, label |-> "", order |-> 0, enabled |-> TRUE]
CodeWrite(fs, l, o, e) ==
    [exists |-> TRUE, fields |-> fs,
     label |-> IF "label" \in fs THEN l ELSE "",
     order |-> IF "order" \in fs THEN o ELSE 0,
     enabled |-> IF "enabled" \in fs THEN e ELSE TRUE]
\* setDoc(ref, w, {merge: true}): the written fields replace, the others stay
MergeCodeReplace(old, w) == w
MergeCode(old, w) ==
    [exists |-> TRUE, fields |-> old.fields \cup w.fields,
     label |-> IF "label" \in w.fields THEN w.label ELSE old.label,
     order |-> IF "order" \in w.fields THEN w.order ELSE old.order,
     enabled |-> IF "enabled" \in w.fields THEN w.enabled ELSE old.enabled]

\* steps of a template document: "none" no such field, "legacy" stored before,
\* "empty" the [] addWorkType writes, "saved" the list onSaveTemplate writes
NoTemplate == [exists |-> FALSE, title |-> "", steps |-> "none"]
TemplateDoc(t, st) == [exists |-> TRUE, title |-> t, steps |-> st]
\* setDoc(ref, {title, workTypeId}, {merge: true})
MergeTitle(old, t) == [exists |-> TRUE, title |-> t, steps |-> old.steps]

\* normStr(data.label, d.id), normNum(data.order, 0), normBool(data.enabled, true)
NormCode(d, id) ==
    [label |-> IF "label" \in d.fields THEN d.label ELSE id,
     order |-> IF "order" \in d.fields THEN d.order ELSE 0,
     enabled |-> IF "enabled" \in d.fields THEN d.enabled ELSE TRUE]
NoEntry == [has |-> FALSE, label |-> "", order |-> 0, enabled |-> TRUE]
\* the onSnapshot callback on query(codes, orderBy("order")): the query
\* returns the documents that have the field order, and only those
QueryView(cs) ==
    [id \in CatIds |->
        IF cs[id].exists /\ "order" \in cs[id].fields
        THEN [has |-> TRUE, label |-> NormCode(cs[id], id).label,
              order |-> NormCode(cs[id], id).order,
              enabled |-> NormCode(cs[id], id).enabled]
        ELSE NoEntry]
NoMeta == [has |-> FALSE, title |-> ""]
\* the map loadTemplatesMeta builds from getDocs(templates)
MetaView(ts) ==
    [id \in CatIds |-> IF ts[id].exists THEN [has |-> TRUE, title |-> ts[id].title]
                       ELSE NoMeta]

Rank(q, x) == CHOOSE i \in 1..Len(q) : q[i] = x
localeCompare(a, b) == Rank(CollationSeq, a) - Rank(CollationSeq, b)

RowTitleFirst(cm, tm, id) ==
    [id |-> id,
     label |-> IF tm[id].has THEN tm[id].title
               ELSE IF cm[id].has THEN cm[id].label ELSE id,
     order |-> IF cm[id].has THEN cm[id].order ELSE NoCodeOrder,
     enabled |-> IF cm[id].has THEN cm[id].enabled ELSE TRUE,
     source |-> IF cm[id].has /\ tm[id].has THEN "both"
                ELSE IF cm[id].has THEN "codes" ELSE "templates"]
Row(cm, tm, id) ==
    [id |-> id,
     label |-> IF cm[id].has THEN cm[id].label
               ELSE IF tm[id].has THEN tm[id].title ELSE id,
     order |-> IF cm[id].has THEN cm[id].order ELSE NoCodeOrder,
     enabled |-> IF cm[id].has THEN cm[id].enabled ELSE TRUE,
     source |-> IF cm[id].has /\ tm[id].has THEN "both"
                ELSE IF cm[id].has THEN "codes" ELSE "templates"]
\* the ids Set: the ids of codesMap, then the template ids not yet in it
RowIds(cm, tm) ==
    SelectSeq(DocIdSeq, LAMBDA id : cm[id].has)
        \o SelectSeq(DocIdSeq, LAMBDA id : ~cm[id].has /\ tm[id].has)
RowCmp(a, b) ==
    IF a.order # b.order THEN a.order - b.order ELSE localeCompare(a.label, b.label)
RECURSIVE InsertRow(_, _)
InsertRow(r, s) ==
    IF s = <<>> THEN <<r>>
    ELSE IF RowCmp(Head(s), r) <= 0 THEN <<Head(s)>> \o InsertRow(r, Tail(s))
    ELSE <<r>> \o s
RECURSIVE SortRows(_)
SortRows(s) ==
    IF s = <<>> THEN <<>>
    ELSE InsertRow(s[Len(s)], SortRows(SubSeq(s, 1, Len(s) - 1)))
workTypes(cm, tm) ==
    SortRows([i \in 1..Len(RowIds(cm, tm)) |-> Row(cm, tm, RowIds(cm, tm)[i])])
maxOrder(rows) ==
    IF rows = <<>> THEN 0
    ELSE CHOOSE m \in { rows[i].order : i \in 1..Len(rows) } :
            \A i \in 1..Len(rows) : rows[i].order <= m
RowIdSet(rows) == { rows[i].id : i \in 1..Len(rows) }

\* doc(collection(db, COL_CODES)).id: an id no document and no view has
FreeAutoIds ==
    { id \in AutoIds : /\ ~codes[id].exists /\ ~templates[id].exists
                       /\ ~codesMap[id].has /\ ~templatesMeta[id].has }
newCodeRef == AutoIdSeq[CHOOSE i \in 1..Len(AutoIdSeq) :
                  /\ AutoIdSeq[i] \in FreeAutoIds
                  /\ \A j \in 1..(i - 1) : AutoIdSeq[j] \notin FreeAutoIds]

CLast(op, id, res) == [op |-> op, id |-> id, res |-> res, n |-> clast.n + 1]
Budget == clast.n < MaxCalls

(* What each handler writes, given the view (cm, tm) of the session that  *)
(* runs it and the outcome of its writes.                                 *)
AddResults == { "code_failed", "template_failed", "ok" }
AddWritesRollback(cm, tm, id, label, res) ==
    /\ codes' = IF res = "ok"
                THEN [codes EXCEPT ![id] =
                        CodeWrite(CodeFields, label, maxOrder(workTypes(cm, tm)) + 1, TRUE)]
                ELSE codes
    /\ templates' = IF res = "ok"
                    THEN [templates EXCEPT ![id] = TemplateDoc(label, "empty")]
                    ELSE templates
AddWrites(cm, tm, id, label, res) ==
    /\ codes' = IF res = "code_failed" THEN codes
                ELSE [codes EXCEPT ![id] =
                        CodeWrite(CodeFields, label, maxOrder(workTypes(cm, tm)) + 1, TRUE)]
    /\ templates' = IF res = "ok"
                    THEN [templates EXCEPT ![id] = TemplateDoc(label, "empty")]
                    ELSE templates

ImportResults == { "read_failed", "commit_failed", "ok" }
ImportTargets(cm) == SelectSeq(DocIdSeq, LAMBDA id : templates[id].exists /\ ~cm[id].has)
ImportWrites(cm, tm, res) ==
    LET targets == ImportTargets(cm)
        base == maxOrder(workTypes(cm, tm))
    IN  /\ codes' = IF res = "ok"
                    THEN [id \in CatIds |->
                            IF \E k \in 1..Len(targets) : targets[k] = id
                            THEN MergeCode(codes[id],
                                   CodeWrite(CodeFields, templates[id].title,
                                             base + Rank(targets, id), TRUE))
                            ELSE codes[id]]
                    ELSE codes
        /\ UNCHANGED templates

RenameResults == { "code_failed", "template_failed", "ok" }
RenameWrites(id, label, res) ==
    /\ codes' = IF res = "code_failed" THEN codes
                ELSE [codes EXCEPT ![id] = MergeCode(@, CodeWrite({"label"}, label, 0, TRUE))]
    /\ templates' = IF res = "ok" THEN [templates EXCEPT ![id] = MergeTitle(@, label)]
                    ELSE templates

EnableResults == { "failed", "ok" }
EnableWrites(id, enabled, res) ==
    /\ codes' = IF res = "ok"
                THEN [codes EXCEPT ![id] = MergeCode(@, CodeWrite({"enabled"}, "", 0, enabled))]
                ELSE codes
    /\ UNCHANGED templates

\* each deleteDoc has its own catch: either may fail and the handler goes on
\* and confirm() may be declined, which ends the handler before them
DeleteResults == { "declined", "code_failed", "template_failed", "both_failed", "ok" }
DeleteWritesStopOnFail(id, res) ==
    /\ codes' = IF res \in {"ok", "template_failed"} THEN [codes EXCEPT ![id] = NoCode]
                ELSE codes
    /\ templates' = IF res = "ok" THEN [templates EXCEPT ![id] = NoTemplate]
                    ELSE templates
DeleteWrites(id, res) ==
    /\ codes' = IF res \in {"ok", "template_failed"} THEN [codes EXCEPT ![id] = NoCode]
                ELSE codes
    /\ templates' = IF res \in {"ok", "code_failed"} THEN [templates EXCEPT ![id] = NoTemplate]
                    ELSE templates

SaveDocResults == { "write_failed", "label_failed", "ok" }
SaveWrites(cm, id, t, res) ==
    /\ templates' = IF res = "write_failed" THEN templates
                    ELSE [templates EXCEPT ![id] = TemplateDoc(t, "saved")]
    /\ codes' = IF res = "ok" /\ cm[id].has
                THEN [codes EXCEPT ![id] = MergeCode(@, CodeWrite({"label"}, t, 0, TRUE))]
                ELSE codes

(* The handlers of the session whose view is codesMap and templatesMeta.  *)
(* A write of its own reaches its listener before the handler returns;    *)
(* reload tells whether the loadTemplatesMeta the handler ends with       *)
(* succeeded (its failure is caught and only logged).                     *)
SelectableIds == RowIdSet(workTypes(codesMap, templatesMeta))
OwnView(reload) ==
    /\ codesMap' = IF codes' = codes THEN codesMap ELSE QueryView(codes')
    /\ templatesMeta' = IF reload THEN MetaView(templates') ELSE templatesMeta

addWorkType(label, res, reload) ==
    /\ Budget
    /\ FreeAutoIds # {}
    /\ AddWrites(codesMap, templatesMeta, newCodeRef, label, res)
    /\ OwnView(res = "ok" /\ reload)
    /\ clast' = CLast("add", newCodeRef, res)
    /\ UNCHANGED <<editorVars, memberVars, selectVars>>

importFromTemplates(res) ==
    /\ Budget
    /\ ImportWrites(codesMap, templatesMeta, res)
    /\ OwnView(FALSE)
    /\ clast' = CLast("import", "", res)
    /\ UNCHANGED <<editorVars, memberVars, selectVars>>

\* what the user types as a label, and label.trim() as a catalog label
\* (the labels of the model have one character)
LabelInputs == { <<" ">>, <<"A", " ">>, <<" ", "B">> }
LabelText(s) == IF s = <<>> THEN "" ELSE s[1]

\* which outcomes a handler reports with its failure alert: hardDelete
\* swallows the throws of both deleteDoc calls, and loadTemplatesMeta
\* catches its own
Alerts(op, res) ==
    IF op = "delete" THEN FALSE
    ELSE res \notin { "ok", "empty", "declined" }

renameWorkType(id, label, res, reload) ==
    /\ Budget
    /\ LET fixed == LabelText(Trim(label))
       IN  IF fixed = ""
           THEN /\ UNCHANGED <<codes, templates, codesMap, templatesMeta>>
                /\ clast' = CLast("rename", id, "empty")
           ELSE /\ RenameWrites(id, fixed, res)
                /\ OwnView(res = "ok" /\ reload)
                /\ clast' = CLast("rename", id, res)
    /\ UNCHANGED <<editorVars, memberVars, selectVars>>

setEnabled(id, enabled, res) ==
    /\ Budget
    /\ EnableWrites(id, enabled, res)
    /\ OwnView(FALSE)
    /\ clast' = CLast("enable", id, res)
    /\ UNCHANGED <<editorVars, memberVars, selectVars>>

hardDelete(id, res, reload) ==
    /\ Budget
    /\ DeleteWrites(id, res)
    /\ OwnView(res # "declined" /\ reload)
    /\ clast' = CLast("delete", id, res)
    /\ UNCHANGED <<editorVars, memberVars, selectVars>>

\* the catalog side of onSaveTemplate: the template document, the label of
\* the code entry the session knows of, then loadTemplatesMeta
saveTemplateDocs(id, t, res, reload) ==
    /\ Budget
    /\ SaveWrites(codesMap, id, t, res)
    /\ OwnView(res = "ok" /\ reload)
    /\ clast' = CLast("save", id, res)
    /\ UNCHANGED <<editorVars, memberVars, selectVars>>

\* the listener receives the writes of other sessions
onSnapshot ==
    /\ Budget
    /\ codesMap # QueryView(codes)
    /\ codesMap' = QueryView(codes)
    /\ clast' = CLast("snapshot", "", "ok")
    /\ UNCHANGED <<codes, templates, templatesMeta, editorVars, memberVars, selectVars>>

\* the page is opened again: the mount effect reloads the template list
loadTemplatesMeta ==
    /\ Budget
    /\ templatesMeta # MetaView(templates)
    /\ templatesMeta' = MetaView(templates)
    /\ clast' = CLast("reload", "", "ok")
    /\ UNCHANGED <<codes, templates, codesMap, editorVars, memberVars, selectVars>>

(* Another session, with the view it holds right after its own snapshot   *)
(* and reload, runs a handler; this session's view does not move.         *)
OtherIds == RowIdSet(workTypes(QueryView(codes), MetaView(templates)))
otherSession ==
    /\ Budget
    /\ \/ \E id \in OtherIds, l \in Labels :
             RenameWrites(id, l, "ok") /\ clast' = CLast("other_rename", id, "ok")
       \/ \E id \in OtherIds, b \in BOOLEAN :
             EnableWrites(id, b, "ok") /\ clast' = CLast("other_enable", id, "ok")
       \/ \E id \in OtherIds :
             DeleteWrites(id, "ok") /\ clast' = CLast("other_delete", id, "ok")
       \/ /\ ImportWrites(QueryView(codes), MetaView(templates), "ok")
          /\ clast' = CLast("other_import", "", "ok")
    /\ <<codes, templates>>' # <<codes, templates>>
    /\ UNCHANGED <<codesMap, templatesMeta, editorVars, memberVars, selectVars>>

CatalogNext ==
    \/ \E l \in Labels, res \in AddResults, reload \in BOOLEAN : addWorkType(l, res, reload)
    \/ \E res \in ImportResults : importFromTemplates(res)
    \/ \E id \in SelectableIds, l \in LabelInputs, res \in RenameResults, reload \in BOOLEAN :
          renameWorkType(id, l, res, reload)
    \/ \E id \in SelectableIds, b \in BOOLEAN, res \in EnableResults : setEnabled(id, b, res)
    \/ \E id \in SelectableIds, res \in DeleteResults, reload \in BOOLEAN :
          hardDelete(id, res, reload)
    \/ \E id \in SelectableIds, l \in Labels, res \in SaveDocResults, reload \in BOOLEAN :
          saveTemplateDocs(id, l, res, reload)
    \/ onSnapshot
    \/ loadTemplatesMeta
    \/ otherSession

\* the collections as a deployment holds them: a template stored before the
\* code list existed, with or without a code entry of its own; the session
\* has received its first snapshot and template list
CatalogInit ==
    /\ templates = [id \in CatIds |-> IF id = "t1" THEN TemplateDoc("B", "legacy") ELSE NoTemplate]
    /\ codes \in { [id \in CatIds |-> NoCode],
                   [id \in CatIds |-> IF id = "t1" THEN CodeWrite(CodeFields, "A", 1, TRUE)
                                      ELSE NoCode] }
    /\ codesMap = QueryView(codes)
    /\ templatesMeta = MetaView(templates)
    /\ clast = [op |-> "init", id |-> "", res |-> "ok", n |-> 0]
    /\ stored = NoDoc
    /\ steps = <<>>
    /\ title = <<>>
    /\ last = Last("init", "", "", "ok")
    /\ members = <<>>
    /\ subs = <<>>
    /\ users = <<>>
    /\ renovaUsers = <<>>
    /\ adminEnv = <<>>
    /\ mlast = <<>>
    /\ workTypeId = "" /\ loading = FALSE /\ inflight = {} /\ loadedFrom = ""

SpecCatalog == CatalogInit /\ [][CatalogNext]_vars

-----------------------------------------------------------------------------
(* Claims on the catalog *)

ViewIsCurrent == codesMap = QueryView(codes) /\ templatesMeta = MetaView(templates)

\* C7: in the merged view a row whose id is only in the template collection
\* has source "templates" and stands after every row whose id is in the code
\* collection, in every state the catalog handlers reach (read on a view
\* that is up to date with both collections).
C7_TemplateOnlyRowsLast ==
    LET rows == workTypes(codesMap, templatesMeta)
    IN  ViewIsCurrent =>
          \A i \in 1..Len(rows) :
             (templates[rows[i].id].exists /\ ~codes[rows[i].id].exists) =>
                /\ rows[i].source = "templates"
                /\ \A j \in 1..Len(rows) : codes[rows[j].id].exists => j < i

\* C8: an import step leaves every code entry that existed before it in
\* place, with the label, the order and the enabled flag it had, whoever
\* created the entry and whether or not this session had received it.
C8_ImportKeepsExisting ==
    [][ clast'.op = "import" =>
          \A id \in CatIds :
             codes[id].exists =>
                /\ codes'[id].exists
                /\ \A f \in codes[id].fields : codes'[id][f] = codes[id][f] ]_vars


-----------------------------------------------------------------------------
(* The member endpoints: the member collection, the billing provider, the  *)
(* Identity Gate, the list endpoint and the cancel-at-period-end endpoint. *)

Null == [t |-> "null"]
Bool(b) == [t |-> "bool", v |-> b]
toStr(v) == IF v.t = "string" THEN v.v ELSE ""
\* toStr of a text field, the text being a sequence of characters
toStrSeq(v) == IF v.t = "string" THEN v.v ELSE <<>>
toBoolOrNull(v) == IF v.t = "bool" THEN v ELSE Null
toNumOrNull(v) == IF v.t = "number" THEN v ELSE Null
pickStatus(v) == IF v = Str("active") THEN "active" ELSE "inactive"

\* the Authorization header of a request: none (or not a Bearer header), a
\* token verifyIdToken rejects, the token of a signed-in user who is not in
\* RENOVA_ADMIN_UIDS, the token of an administrator
Creds == { "none", "invalid", "user", "admin" }
getBearer(cred) == IF cred = "none" THEN Null ELSE Str(cred)
\* verifyIdToken: the uid of the token (a text of one character here)
TokenUid(cred) == IF cred = "admin" THEN <<"A">> ELSE <<"U">>
\* raw.split(","): the pieces between the commas, "" giving one empty piece
RECURSIVE SplitComma(_)
SplitComma(raw) ==
    IF \A i \in 1..Len(raw) : raw[i] # ","
    THEN << raw >>
    ELSE LET k == CHOOSE i \in 1..Len(raw) :
                     raw[i] = "," /\ \A j \in 1..(i - 1) : raw[j] # ","
         IN  << SubSeq(raw, 1, k - 1) >> \o SplitComma(SubSeq(raw, k + 1, Len(raw)))
\* the allow-list: the pieces of RENOVA_ADMIN_UIDS, trimmed, the empty dropped
parseAdminUids ==
    LET pieces == SplitComma(adminEnv)
    IN  { Trim(pieces[i]) : i \in 1..Len(pieces) } \ { <<>> }
\* requireAdminFromRequest: the error it throws, or "ok"
requireAdminFromRequest(cred) ==
    IF cred = "none" THEN "missing_authorization"
    ELSE IF cred = "invalid" THEN "auth/argument-error"
    ELSE IF TokenUid(cred) \notin parseAdminUids THEN "not_admin"
    ELSE "ok"

\* member documents: m1 is stored under its uid, d2 under an auto id with the
\* uid in a field
MemberDocIds == { "m1", "d2" }
SubIds == { "sub_1", "sub_2" }
\* current_period_end of the provider, in seconds (small enough for the
\* product with 1000 to stay a TLC integer); Undef where the provider's answer
\* carries no such number
PeriodEnds == { Num(1702592), Undef }
NoBilling == [isObj |-> FALSE, mode |-> Undef, status |-> Undef,
              stripeCustomerId |-> Undef, stripeSubscriptionId |-> Undef,
              cancelAtPeriodEnd |-> Undef, currentPeriodEndMs |-> Undef]
Billing(st, sub, c, ms) ==
    [isObj |-> TRUE, mode |-> Undef, status |-> st,
     stripeCustomerId |-> Undef, stripeSubscriptionId |-> sub,
     cancelAtPeriodEnd |-> c, currentPeriodEndMs |-> ms]
Member(u, b) == [exists |-> TRUE, uid |-> u, billing |-> b]
NoMember == [exists |-> FALSE, uid |-> Undef, billing |-> NoBilling]

\* findMemberRefByUid: the document with that id, else a document whose uid
\* field is that uid (limit 1), else none
MemberRefs(who) ==
    IF who \in DOMAIN members /\ members[who].exists THEN { who }
    ELSE { d \in DOMAIN members : members[d].exists /\ members[d].uid = Str(who) }

\* cpeSec * 1000
PeriodEndSec(sec) == IF sec.t = "number" THEN Num(sec.v) ELSE Null
PeriodEndMs(sec) == IF sec.t = "number" THEN Num(sec.v * 1000) ELSE Null

\* memberRef.set({billing: {cancelAtPeriodEnd, currentPeriodEndMs}}, {merge: true})
MirrorBilling(d, c, ms) ==
    [d EXCEPT !.billing.isObj = TRUE,
              !.billing.cancelAtPeriodEnd = c,
              !.billing.currentPeriodEndMs = ms]

MLast(op, cred, who, sent, status, error, ref, answer, rows) ==
    [op |-> op, cred |-> cred, uid |-> who, sent |-> sent, status |-> status,
     error |-> error, ref |-> ref, answer |-> answer, rows |-> rows]
NoAnswer == [cancel_at_period_end |-> Undef, current_period_end |-> Undef]
Reject(cred, who, sent, status, error) ==
    /\ mlast' = MLast("cancel", cred, who, sent, status, error, "", NoAnswer, {})
    /\ UNCHANGED <<members, subs>>

\* stripe.subscriptions.update throws: the catch answers 500 and the member
\* document has not been written
ProviderFailedOptimistic(cred, who, sent, ref) ==
    /\ mlast' = MLast("cancel", cred, who, sent, 500, "provider_error", ref, NoAnswer, {})
    /\ members' = [members EXCEPT ![ref] = MirrorBilling(@, toBoolOrNull(sent), Null)]
    /\ UNCHANGED subs
ProviderFailed(cred, who, sent, ref) ==
    /\ mlast' = MLast("cancel", cred, who, sent, 500, "provider_error", ref, NoAnswer, {})
    /\ UNCHANGED <<members, subs>>

\* what may go wrong outside the endpoint once the request is accepted
CancelFaults == { "none", "provider_failed", "write_failed" }
\* the body: uid (a string, "" when missing) and cancelAtPeriodEnd (a
\* boolean, Undef when missing or of another type)
BodyUids == { "", "m1", "m2", "m9" }
BodyFlags == { Bool(TRUE), Bool(FALSE), Undef }

\* POST /api/admin/members/cancel-at-period-end.  The provider answers with
\* the subscription as it holds it after the update; the model does not
\* assume that the flag it holds is the one that was asked for.
cancelAtPeriodEnd(cred, who, sent) ==
    /\ IF getBearer(cred) = Null
       THEN Reject(cred, who, sent, 401, "UNAUTHORIZED")
       ELSE IF cred = "invalid"
       THEN Reject(cred, who, sent, 500, "auth/argument-error")
       ELSE IF who = "" \/ toBoolOrNull(sent) = Null
       THEN Reject(cred, who, sent, 400, "BAD_REQUEST")
       ELSE IF MemberRefs(who) = {}
       THEN Reject(cred, who, sent, 404, "NOT_FOUND")
       ELSE \E ref \in MemberRefs(who) :
            LET sub == IF members[ref].billing.isObj
                       THEN toStr(members[ref].billing.stripeSubscriptionId) ELSE ""
            IN  IF sub = ""
                THEN Reject(cred, who, sent, 400, "stripeSubscriptionId_missing")
                ELSE \E fault \in CancelFaults :
                     IF fault = "provider_failed" \/ sub \notin SubIds
                     THEN ProviderFailed(cred, who, sent, ref)
                     ELSE \E flag \in BOOLEAN, sec \in PeriodEnds :
                     LET u == [cancel_at_period_end |-> Bool(flag), current_period_end |-> sec]
                     IN  /\ subs' = [subs EXCEPT ![sub] = u]
                         /\ members' =
                              IF fault = "write_failed" THEN members
                              ELSE [members EXCEPT ![ref] =
                                      MirrorBilling(@, toBoolOrNull(u.cancel_at_period_end),
                                                    PeriodEndMs(toNumOrNull(u.current_period_end)))]
                         /\ mlast' =
                              IF fault = "write_failed"
                              THEN MLast("cancel", cred, who, sent, 500, "write_error", ref, u, {})
                              ELSE MLast("cancel", cred, who, sent, 200, "", ref, u, {})
    /\ UNCHANGED <<users, renovaUsers, adminEnv, editorVars, catalogVars, selectVars>>

\* one row of the member list
MemberRow(d) ==
    [uid |-> IF toStr(members[d].uid) # "" THEN toStr(members[d].uid) ELSE d,
     status |-> pickStatus(members[d].billing.status),
     stripeSubscriptionId |-> toStr(members[d].billing.stripeSubscriptionId),
     cancelAtPeriodEnd |-> toBoolOrNull(members[d].billing.cancelAtPeriodEnd),
     currentPeriodEndMs |-> toNumOrNull(members[d].billing.currentPeriodEndMs)]

\* POST /api/admin/members/list: the handler does not read its request
listMembers(cred, dbOk) ==
    /\ mlast' = IF dbOk
                THEN MLast("list", cred, "", Undef, 200, "", "", NoAnswer,
                           { MemberRow(d) : d \in { x \in DOMAIN members : members[x].exists } })
                ELSE MLast("list", cred, "", Undef, 500, "db_error", "", NoAnswer, {})
    /\ UNCHANGED <<members, subs, users, renovaUsers, adminEnv, editorVars, catalogVars, selectVars>>

MembersNext ==
    \/ \E cred \in Creds, who \in BodyUids, sent \in BodyFlags :
          cancelAtPeriodEnd(cred, who, sent)
    \/ \E cred \in Creds, dbOk \in BOOLEAN : listMembers(cred, dbOk)

\* two members on file, the second under an auto id; one of the two has a
\* subscription on file, and for the first nothing has been mirrored yet
MembersInit ==
    /\ members \in
         { [d \in MemberDocIds |->
              IF d = "m1" THEN Member(Str("m1"), Billing(Str("active"), Str("sub_1"), Null, Null))
              ELSE Member(Str("m2"), b2)] :
           b2 \in { Billing(Str("inactive"), Str(""), Null, Null), NoBilling } }
         \cup
         { [d \in MemberDocIds |->
              IF d = "m1" THEN Member(Str("m1"), Billing(Str("inactive"), Str(""), Null, Null))
              ELSE Member(Str("m2"), Billing(Str("active"), Str("sub_2"), Bool(TRUE), Num(5)))] }
    /\ subs = [x \in SubIds |-> [cancel_at_period_end |-> Bool(FALSE),
                                 current_period_end |-> Num(1702592)]]
    /\ users = {}
    /\ renovaUsers = <<>>
    /\ adminEnv = <<"A">>
    /\ mlast = MLast("init", "none", "", Undef, 0, "", "", NoAnswer, {})
    /\ stored = NoDoc
    /\ steps = <<>>
    /\ title = <<>>
    /\ last = Last("init", "", "", "ok")
    /\ codes = <<>>
    /\ templates = <<>>
    /\ codesMap = <<>>
    /\ templatesMeta = <<>>
    /\ clast = <<>>
    /\ workTypeId = "" /\ loading = FALSE /\ inflight = {} /\ loadedFrom = ""

SpecMembers == MembersInit /\ [][MembersNext]_vars

-----------------------------------------------------------------------------
(* The member creation endpoint and the billing status endpoint, both      *)
(* behind requireAdminFromRequest.                                         *)

\* RENOVA_ADMIN_UIDS as deployed: unset or empty, commas and blanks only,
\* one administrator among blanks and empty pieces
AdminEnvs == { <<>>, <<",", " ">>, <<" ", "A", " ", ",", ",">> }

\* the catch of both endpoints: the status for a thrown message
CatchStatus(msg) ==
    IF msg = "missing_authorization" THEN 401
    ELSE IF msg = "not_admin" THEN 403
    ELSE 500

Respond(op, cred, who, sent, status, error) ==
    mlast' = MLast(op, cred, who, sent, status, error, "", NoAnswer, {})

\* the body of a creation request: each field a JSON value
Emails == { Undef, Str(<<" ", "e">>) }
Passwords == { Undef, Str(<<"p", "p", "p", "p", "p">>),
               Str(<<" ", " ", " ", " ", " ", "p">>) }
TextInputs == { Str(<<" ">>), Str(<<"x", " ">>) }
BillingModes == { Str("free"), Str("paid") }
CreateBodies ==
    [email : Emails, password : Passwords, fullName : TextInputs,
     companyName : TextInputs, billingMode : BillingModes]
ValidBodies ==
    { b \in CreateBodies : /\ b.email # Undef
                           /\ b.password = Str(<<" ", " ", " ", " ", " ", "p">>)
                           /\ b.fullName = Str(<<"x", " ">>)
                           /\ b.companyName = Str(<<"x", " ">>) }

toBillingMode(v) == IF v = Str("free") THEN "free" ELSE "paid"
\* !(!password || password.length < 6), the password as sent
PasswordOkAny(pw) == pw # <<>>
PasswordOk(pw) == pw # <<>> /\ Len(pw) >= 6
\* the validation block: the error of the first check that fails, or "ok"
Validate(body) ==
    IF Trim(toStrSeq(body.email)) = <<>> THEN "email_required"
    ELSE IF ~PasswordOk(toStrSeq(body.password)) THEN "password_min_6"
    ELSE IF Trim(toStrSeq(body.fullName)) = <<>> THEN "fullName_required"
    ELSE IF Trim(toStrSeq(body.companyName)) = <<>> THEN "companyName_required"
    ELSE "ok"

\* the uids createUser hands out, in order
AccountUidSeq == << "a1" >>
AccountUids == { AccountUidSeq[i] : i \in 1..Len(AccountUidSeq) }
FreeAccountUids ==
    { i \in 1..Len(AccountUidSeq) : \A a \in users : a.uid # AccountUidSeq[i] }
\* billing.status of a new member
InitialStatusActive(mode) == "active"
InitialStatus(mode) == IF mode = "free" THEN "active" ELSE "inactive"
\* doc(uid).set({uid, email, profile, billing: {...}}, {merge: true})
MergeCreated(d, who, mode) ==
    [exists |-> TRUE, uid |-> Str(who),
     billing |-> [d.billing EXCEPT !.isObj = TRUE,
                                   !.mode = Str(mode),
                                   !.status = Str(InitialStatus(mode)),
                                   !.stripeCustomerId = Str(""),
                                   !.stripeSubscriptionId = Str("")]]
\* what may go wrong once the body is valid: createUser throws, or the
\* document write throws after the user exists
CreateFaults == { "none", "create_failed", "write_failed" }

\* POST /api/admin/members/create
createMember(cred, body) ==
    /\ LET auth == requireAdminFromRequest(cred)
           v == Validate(body)
           email == Trim(toStrSeq(body.email))
       IN  IF auth # "ok"
           THEN /\ Respond("create", cred, "", body, CatchStatus(auth), auth)
                /\ UNCHANGED <<users, members>>
           ELSE IF v # "ok"
           THEN /\ Respond("create", cred, "", body, 400, v)
                /\ UNCHANGED <<users, members>>
           ELSE \E fault \in CreateFaults :
                IF fault = "create_failed" \/ \E a \in users : a.email = email
                THEN /\ Respond("create", cred, "", body, 500, "auth/create-error")
                     /\ UNCHANGED <<users, members>>
                ELSE /\ FreeAccountUids # {}
                     /\ LET k == CHOOSE i \in FreeAccountUids :
                                     \A j \in FreeAccountUids : i <= j
                            u == AccountUidSeq[k]
                        IN  /\ users' = users \cup { [uid |-> u, email |-> email] }
                            /\ IF fault = "write_failed"
                               THEN /\ Respond("create", cred, u, body, 500, "write_error")
                                    /\ UNCHANGED members
                               ELSE /\ Respond("create", cred, u, body, 200, "")
                                    /\ members' = [members EXCEPT ![u] =
                                          MergeCreated(@, u, toBillingMode(body.billingMode))]
    /\ UNCHANGED <<subs, renovaUsers, adminEnv, editorVars, catalogVars, selectVars>>

\* the direct calls of the creation scenario
CreateNext ==
    \/ \E cred \in Creds, body \in CreateBodies : createMember(cred, body)
    \/ \E dbOk \in BOOLEAN : listMembers("admin", dbOk)

\* one member with a subscription on file, no account created yet
CreateInit ==
    /\ members = [d \in { "m1" } \cup AccountUids |->
                    IF d = "m1"
                    THEN Member(Str("m1"), Billing(Str("active"), Str("sub_1"), Null, Null))
                    ELSE NoMember]
    /\ subs = [x \in SubIds |-> [cancel_at_period_end |-> Bool(FALSE),
                                 current_period_end |-> Num(1702592)]]
    /\ users = {}
    /\ renovaUsers = <<>>
    /\ adminEnv \in AdminEnvs
    /\ mlast = MLast("init", "none", "", Undef, 0, "", "", NoAnswer, {})
    /\ stored = NoDoc
    /\ steps = <<>>
    /\ title = <<>>
    /\ last = Last("init", "", "", "ok")
    /\ codes = <<>>
    /\ templates = <<>>
    /\ codesMap = <<>>
    /\ templatesMeta = <<>>
    /\ clast = <<>>
    /\ workTypeId = "" /\ loading = FALSE /\ inflight = {} /\ loadedFrom = ""

SpecCreate == CreateInit /\ [][CreateNext]_vars

\* the body of a billing status request: uid (a string, here "" or a blank
\* or the id of a member), mode and status
BillingUids == { "", " ", "m1" }
BillingStatuses == { Str("active"), Str("inactive") }
\* toStr(body.uid).trim() on these uids
TrimUid(who) == IF who = " " THEN "" ELSE who
toMode(v) == IF v = Str("free") THEN "free" ELSE "paid"
toStatus(v) == IF v = Str("active") THEN "active" ELSE "inactive"
\* db.collection("renovaUsers").doc(uid).set({billing: {...}}, {merge: true}),
\* the body carrying no Stripe ids
MergeBilling(d, mode, status) ==
    [d EXCEPT !.exists = TRUE,
              !.billing.isObj = TRUE,
              !.billing.mode = Str(mode),
              !.billing.status = Str(status),
              !.billing.stripeCustomerId = Str(""),
              !.billing.stripeSubscriptionId = Str("")]

\* POST /api/admin/members/billing (set mode and status)
setBillingStatus(cred, who, mode, status) ==
    /\ LET auth == requireAdminFromRequest(cred)
           sent == [mode |-> mode, status |-> status]
           u == TrimUid(who)
       IN  IF auth # "ok"
           THEN /\ Respond("billing", cred, who, sent, CatchStatus(auth), auth)
                /\ UNCHANGED renovaUsers
           ELSE IF u = ""
           THEN /\ Respond("billing", cred, who, sent, 400, "uid_required")
                /\ UNCHANGED renovaUsers
           ELSE \E written \in BOOLEAN :
                IF written
                THEN /\ Respond("billing", cred, u, sent, 200, "")
                     /\ renovaUsers' = [renovaUsers EXCEPT ![u] =
                           MergeBilling(@, toMode(mode), toStatus(status))]
                ELSE /\ Respond("billing", cred, u, sent, 500, "write_error")
                     /\ UNCHANGED renovaUsers
    /\ UNCHANGED <<members, subs, users, adminEnv, editorVars, catalogVars, selectVars>>

\* the direct calls of the account scenario
AccountsNext ==
    \/ \E cred \in Creds, body \in ValidBodies : createMember(cred, body)
    \/ \E cred \in Creds, who \in BillingUids, mode \in BillingModes,
           status \in BillingStatuses : setBillingStatus(cred, who, mode, status)
    \/ \E dbOk \in BOOLEAN : listMembers("admin", dbOk)
    \/ \E who \in AccountUids : cancelAtPeriodEnd("admin", who, Bool(TRUE))

\* one member whose cancellation has been mirrored, no account created yet,
\* nothing in renovaUsers, one administrator
AccountsInit ==
    /\ members = [d \in { "m1" } \cup AccountUids |->
                    IF d = "m1"
                    THEN Member(Str("m1"), Billing(Str("active"), Str("sub_1"),
                                                   Bool(TRUE), Num(1702592000)))
                    ELSE NoMember]
    /\ subs = [x \in SubIds |-> [cancel_at_period_end |-> Bool(FALSE),
                                 current_period_end |-> Num(1702592)]]
    /\ users = {}
    /\ renovaUsers = [d \in { "m1" } \cup AccountUids |-> NoMember]
    /\ adminEnv = <<" ", "A", " ", ",", ",">>
    /\ mlast = MLast("init", "none", "", Undef, 0, "", "", NoAnswer, {})
    /\ stored = NoDoc
    /\ steps = <<>>
    /\ title = <<>>
    /\ last = Last("init", "", "", "ok")
    /\ codes = <<>>
    /\ templates = <<>>
    /\ codesMap = <<>>
    /\ templatesMeta = <<>>
    /\ clast = <<>>
    /\ workTypeId = "" /\ loading = FALSE /\ inflight = {} /\ loadedFrom = ""

SpecAccounts == AccountsInit /\ [][AccountsNext]_vars

-----------------------------------------------------------------------------
(* Claims on the member endpoints *)

\* C9: after a successful cancel-at-period-end call the member document that
\* the call resolved holds, in billing.cancelAtPeriodEnd, the
\* cancel_at_period_end the provider answered with and, in
\* billing.currentPeriodEndMs, the provider's current_period_end times 1000,
\* whatever flag the client sent and whatever the document held before.
C9_MirrorsProvider ==
    (mlast.op = "cancel" /\ mlast.status = 200) =>
        /\ mlast.ref \in MemberRefs(mlast.uid)
        /\ members[mlast.ref].billing.cancelAtPeriodEnd = mlast.answer.cancel_at_period_end
        /\ mlast.answer.current_period_end.t = "number" =>
              /\ members[mlast.ref].billing.currentPeriodEndMs.t = "number"
              /\ members[mlast.ref].billing.currentPeriodEndMs.v
                    = mlast.answer.current_period_end.v * 1000

\* a successful call in which the provider's flag is not the one the client
\* sent and the document held other values before
C9_Witness ==
    /\ mlast.op = "cancel" /\ mlast.status = 200
    /\ mlast.uid = "m2" /\ mlast.ref = "d2"
    /\ mlast.sent = Bool(FALSE)
    /\ mlast.answer.cancel_at_period_end = Bool(TRUE)
    /\ mlast.answer.current_period_end = Num(1702592)
    /\ members["d2"].billing.currentPeriodEndMs = Num(1702592000)

\* C10: the list endpoint answers with member rows only to a request whose
\* bearer credential passes the Identity Gate, and rejects every other
\* request without rows.
C10_ListIsGated ==
    mlast.op = "list" =>
        /\ mlast.rows # {} => requireAdminFromRequest(mlast.cred) = "ok"
        /\ requireAdminFromRequest(mlast.cred) # "ok" => mlast.status \in {401, 403, 500}


\* C11: the cancel-at-period-end endpoint calls the billing provider and
\* writes a member's billing sub-record only for a request that passes the
\* Identity Gate; a signed-in principal outside the allow-list causes no
\* provider call and no write.
C11_CancelIsGated ==
    [][ (mlast'.op = "cancel" /\ requireAdminFromRequest(mlast'.cred) # "ok") =>
           /\ mlast'.answer = NoAnswer
           /\ subs' = subs
           /\ members' = members ]_vars

\* C16: the cancel-at-period-end endpoint writes a member document only
\* after the billing provider has answered: a call that ends with NOT_FOUND
\* (404), with stripeSubscriptionId_missing (400) or with a failure of the
\* provider call (500) leaves every member document and the provider's
\* subscriptions as they were.
C16_NoWriteBeforeProvider ==
    [][ mlast'.op = "cancel" =>
           /\ members' # members => mlast'.answer # NoAnswer
           /\ mlast'.error = "NOT_FOUND" =>
                 mlast'.status = 404 /\ members' = members /\ subs' = subs
           /\ mlast'.error = "stripeSubscriptionId_missing" =>
                 mlast'.status = 400 /\ members' = members /\ subs' = subs
           /\ mlast'.error = "provider_error" =>
                 mlast'.status = 500 /\ members' = members /\ subs' = subs ]_vars

\* the provider call failed for a member with a subscription on file whose
\* document has never been mirrored, the client having sent a flag
C16_Witness ==
    /\ mlast.op = "cancel" /\ mlast.error = "provider_error"
    /\ mlast.ref = "m1" /\ mlast.sent = Bool(TRUE)
    /\ members["m1"].billing.stripeSubscriptionId = Str("sub_1")
    /\ members["m1"].billing.cancelAtPeriodEnd = Null

\* a text field that is a string with something other than blanks in it
HasText(v) == v.t = "string" /\ \E i \in 1..Len(v.v) : v.v[i] # " "
\* RENOVA_ADMIN_UIDS names nobody
NoAdmins == \A i \in 1..Len(adminEnv) : adminEnv[i] \in { " ", "," }

C13_AuthFailuresAre401Or403 ==
    mlast.op \in { "create", "billing" } =>
        /\ mlast.cred \in { "none", "invalid" } => mlast.status = 401
        /\ (mlast.cred \in { "user", "admin" } /\ TokenUid(mlast.cred) \notin parseAdminUids)
              => mlast.status = 403

\* C14: after a successful billing status set for a uid the member document
\* for that uid, the one the list and cancel endpoints resolve, holds the
\* requested billing.mode and billing.status, and its row in the member
\* list has that status.
C14_BillingSetReachesMember ==
    (mlast.op = "billing" /\ mlast.status = 200) =>
        \E ref \in MemberRefs(mlast.uid) :
            /\ members[ref].billing.mode = mlast.sent.mode
            /\ members[ref].billing.status = mlast.sent.status
            /\ Str(MemberRow(ref).status) = mlast.sent.status

\* the row of member d shows no mirrored cancellation
Unsynced(ms, d) ==
    /\ toBoolOrNull(ms[d].billing.cancelAtPeriodEnd) = Null
    /\ toNumOrNull(ms[d].billing.currentPeriodEndMs) = Null

\* C15: a member created by the creation endpoint gets a billing record
\* with the requested mode, status active exactly when the mode is free and
\* empty Stripe customer and subscription ids, and the member list reports
\* cancelAtPeriodEnd = null and currentPeriodEndMs = null for it from its
\* creation on, through every step that is not a successful
\* cancel-at-period-end call for that member.
C15_UnsyncedUntilCancel ==
    [][ \A u \in AccountUids :
          /\ (mlast'.op = "create" /\ mlast'.status = 200 /\ mlast'.uid = u) =>
                /\ members'[u].exists
                /\ members'[u].billing.mode = mlast'.sent.billingMode
                /\ members'[u].billing.status =
                      (IF mlast'.sent.billingMode = Str("free")
                       THEN Str("active") ELSE Str("inactive"))
                /\ members'[u].billing.stripeCustomerId = Str("")
                /\ members'[u].billing.stripeSubscriptionId = Str("")
                /\ Unsynced(members', u)
          /\ (/\ members[u].exists /\ Unsynced(members, u)
              /\ ~(mlast'.op = "cancel" /\ mlast'.status = 200 /\ mlast'.ref = u)) =>
                /\ members'[u].exists /\ Unsynced(members', u)
          /\ (members'[u].exists /\ Unsynced(members', u)
                /\ mlast'.op = "list" /\ mlast'.status = 200) =>
                \E r \in mlast'.rows :
                    /\ r.uid = u
                    /\ r.cancelAtPeriodEnd = Null
                    /\ r.currentPeriodEndMs = Null ]_vars

\* the list reports a created paid member as unsynced, beside a member
\* whose cancellation has been mirrored, after a billing status set
C15_Witness ==
    /\ mlast.op = "list" /\ mlast.status = 200
    /\ members["a1"].exists /\ members["a1"].billing.mode = Str("paid")
    /\ members["a1"].billing.status = Str("inactive")
    /\ \E r \in mlast.rows :
          r.uid = "a1" /\ r.cancelAtPeriodEnd = Null /\ r.currentPeriodEndMs = Null
    /\ \E r \in mlast.rows :
          r.uid = "m1" /\ r.cancelAtPeriodEnd = Bool(TRUE)
    /\ renovaUsers["m1"].exists

-----------------------------------------------------------------------------
(* Further claims on the step editor *)

\* C17: the ids of the steps are pairwise distinct, in memory after a load
\* and after any add, delete, reorder or rename, and in every list a save
\* has written, whatever the stored Template held.
C17_IdsDistinct ==
    /\ \A i, j \in 1..Len(steps) : i # j => steps[i].id # steps[j].id
    /\ SaveWrote =>
          \A i, j \in 1..Len(stored.steps) :
              i # j => stored.steps[i].id # stored.steps[j].id

\* C18: a save that fails, before or after its write, leaves the step list
\* and the title in memory exactly as they were.
C18_FailedSaveKeepsMemory ==
    [][ (last'.op = "save" /\ last'.res # "saved") =>
           steps' = steps /\ title' = title ]_vars

\* a save has failed while the list held an edited entry and the title was
\* typed by the user
C18_Witness ==
    /\ last.op = "save" /\ last.res = "write_failed"
    /\ title = <<" ", "t">>
    /\ \E i \in 1..Len(steps) : steps[i].name = <<" ", "a", " ">>
    /\ stored.by # "save"

\* C19: a save replaces the Template: after a save of either session the
\* persisted Template holds exactly the canonical step sequence and the
\* title of that save, whatever the other session had written before.
C19_LastWriterWins ==
    [][ /\ (last'.op = "save" /\ last'.res \in {"saved", "failed_after_write"}) =>
              /\ stored'.steps = StoredSteps(normalizeStepsForSave(steps, IdSet(steps)))
              /\ stored'.title = Str(Trim(IF title # <<>> THEN title ELSE WorkLabel))
        /\ last'.op = "other_save" =>
              /\ stored'.steps =
                    StoredSteps(normalizeStepsForSave(last'.list, IdSet(last'.list)))
              /\ stored'.title =
                    Str(Trim(IF last'.title # <<>> THEN last'.title ELSE WorkLabel)) ]_vars

\* this session saved a list of one entry under its own title over a
\* Template of another length and title that the other session had saved
C19_Witness ==
    /\ last.op = "save" /\ last.res = "saved" /\ stored.by = "save"
    /\ last.prev = "other"
    /\ Len(stored.steps) = 1 /\ stored.steps[1].name = Str(<<"b">>)
    /\ stored.title = Str(<<"t">>)
    /\ Len(steps) = 2

-----------------------------------------------------------------------------
(* Further claims on the work type catalog *)

\* C20: a successful add creates a code entry and a Template under one
\* fresh id: the code entry is enabled and has order 1 + the largest order
\* among the code entries the session holds (1 when it holds none), the
\* Template has the label as title and no steps.
C20_AddCreatesPair ==
    [][ (clast'.op = "add" /\ clast'.res = "ok") =>
          LET id == clast'.id
              held == { codesMap[x].order : x \in { y \in CatIds : codesMap[y].has } }
              top == IF held = {} THEN 0
                     ELSE CHOOSE m \in held : \A o \in held : o <= m
          IN  /\ ~codes[id].exists /\ ~templates[id].exists
              /\ codes'[id].exists /\ templates'[id].exists
              /\ codes'[id].enabled = TRUE
              /\ templates'[id].title = codes'[id].label
              /\ templates'[id].steps = "empty"
              /\ codes'[id].order = top + 1 ]_vars

-----------------------------------------------------------------------------
(* Claims on what a save persists and on what a creation leaves behind *)

\* C23: the title a save persists is the current title, else the catalog
\* label; it is never the empty string, also when the current title holds
\* white space only.
C23_PersistedTitleNotEmpty ==
    SaveWrote =>
        /\ stored.title.t = "string"
        /\ stored.title.v # <<>>

\* C28: a save that takes its failure path has left the persisted Template,
\* title and steps, as it was before the save started.
C28_FailedSaveKeepsTemplate ==
    [][ (last'.op = "save" /\ last'.res # "saved") => stored' = stored ]_vars

\* C30: member creation is all-or-nothing: once the endpoint has answered,
\* every identity user it created has the member document keyed by its uid,
\* and an answer other than success has created no identity user.
C30_CreateAllOrNothing ==
    (mlast.op = "create") =>
        /\ \A a \in users : members[a.uid].exists
        /\ \A u \in AccountUids : members[u].exists => \E a \in users : a.uid = u

-----------------------------------------------------------------------------
(* Selecting a work type while a load is on its way *)

SelectIds == { "usWork", "t1" }

\* the Template of the second work type: one step that no other seed holds
OtherTypeDoc ==
    TitledDoc(<<[id |-> Str("u9"), name |-> Str(<<"b">>), order |-> Num(1)]>>,
              Str(<<" ", "t">>), "legacy")

\* select onChange: setWorkTypeId, and the effect on [workTypeId] starts a
\* load of the new selection; loads already on their way are not cancelled
selectWorkType(id) ==
    /\ id # workTypeId
    /\ workTypeId' = id
    /\ loading' = TRUE
    /\ inflight' = inflight \cup { id }
    /\ UNCHANGED <<loadedFrom, templates, steps, title>>
    /\ UNCHANGED <<stored, codes, codesMap, templatesMeta, clast, memberVars>>

\* getDoc of a load answers: setTitle, setSteps, and finally
\* setLoading(false), whatever the selection is by now
loadArrives(id) ==
    /\ id \in inflight
    /\ steps' = LoadedSteps(templates[id], StoredIdSet(templates[id].steps))
    /\ title' = LoadedTitle(templates[id])
    /\ loading' = FALSE
    /\ inflight' = inflight \ { id }
    /\ loadedFrom' = id
    /\ UNCHANGED <<workTypeId, templates>>
    /\ UNCHANGED <<stored, codes, codesMap, templatesMeta, clast, memberVars>>

\* the save button is disabled while loading; the Template written is the
\* one of the selection
saveSelected(res) ==
    /\ ~loading
    /\ templates' = IF res \in {"saved", "failed_after_write"}
                    THEN [templates EXCEPT ![workTypeId] = SavedDoc(steps, title, "save")]
                    ELSE templates
    /\ UNCHANGED <<steps, title, selectVars>>
    /\ UNCHANGED <<stored, codes, codesMap, templatesMeta, clast, memberVars>>

SelectNext ==
    \/ \E id \in SelectIds : selectWorkType(id) /\ last' = Last("select", id, "", "ok")
    \/ \E id \in SelectIds : loadArrives(id) /\ last' = Last("arrive", id, "", "ok")
    \/ \E v \in Titles : setTitle(v) /\ Did("title")
    \/ \E res \in SaveResults :
          saveSelected(res) /\ last' = Last("save", workTypeId, "", res)

SelectInit ==
    /\ workTypeId = "usWork" /\ loading = TRUE /\ inflight = { "usWork" }
    /\ loadedFrom = ""
    /\ templates \in { [usWork |-> d, t1 |-> e] :
                          d \in { OutOfOrderDoc, LegacyDoc }, e \in { NoDoc, OtherTypeDoc } }
    /\ steps = <<>>
    /\ title = <<>>
    /\ stored = <<>>
    /\ last = Last("init", "", "", "ok")
    /\ codes = <<>> /\ codesMap = <<>>
    /\ templatesMeta = <<>> /\ clast = <<>>
    /\ members = <<>> /\ subs = <<>> /\ mlast = <<>>
    /\ users = <<>> /\ renovaUsers = <<>> /\ adminEnv = <<>>

SpecSelect == SelectInit /\ [][SelectNext]_vars

-----------------------------------------------------------------------------
(* Claims on the catalog handlers *)

\* the row of id in the merged view of the session after the step
RowsAfter == workTypes(codesMap', templatesMeta')

\* C21: add rolls nothing back: when the code entry write fails no Template
\* is written and the add is reported as failed; when the code entry write
\* succeeds and the Template write fails the add is reported as failed, the
\* new code entry stays and its id is in the merged view with source
\* "codes".
C21_AddNoRollback ==
    [][ clast'.op = "add" =>
          LET id == clast'.id
          IN  /\ clast'.res = "code_failed" =>
                    /\ codes' = codes /\ templates' = templates
                    /\ Alerts("add", clast'.res)
              /\ clast'.res = "template_failed" =>
                    /\ Alerts("add", clast'.res)
                    /\ codes'[id].exists /\ ~codes[id].exists
                    /\ templates' = templates /\ ~templates'[id].exists
                    /\ \E i \in 1..Len(RowsAfter) :
                          RowsAfter[i].id = id /\ RowsAfter[i].source = "codes" ]_vars

\* an add whose Template write failed left a code entry without Template
C21_Witness ==
    /\ clast.op = "add" /\ clast.res = "template_failed"
    /\ codes[clast.id].exists /\ ~templates[clast.id].exists
    /\ codesMap[clast.id].has /\ ~templatesMeta[clast.id].has

\* C22: a save changes nothing in the code master list but the label of the
\* entry with the saved id: no entry changes its order or enabled flag, no
\* other entry changes at all, and no entry is created for an id that has
\* none.
C22_SaveTouchesLabelOnly ==
    [][ clast'.op = "save" =>
          \A x \in CatIds :
             /\ x # clast'.id => codes'[x] = codes[x]
             /\ codes'[x].exists = codes[x].exists
             /\ codes'[x].order = codes[x].order
             /\ codes'[x].enabled = codes[x].enabled ]_vars

\* C24: the merged view has exactly one row for each id that the code map
\* or the template map holds; its source says which of the two hold it; its
\* label is the code's label if the code map holds the id, else the
\* template's title; its order is the code's, else 999999; the rows stand
\* in ascending order, rows of equal order in the order of their labels.
C24_MergedView ==
    LET rows == workTypes(codesMap, templatesMeta)
        held == { id \in CatIds : codesMap[id].has \/ templatesMeta[id].has }
    IN  /\ { rows[i].id : i \in 1..Len(rows) } = held
        /\ Len(rows) = Cardinality(held)
        /\ \A i \in 1..Len(rows) :
              LET r == rows[i]
                  c == codesMap[r.id]
                  t == templatesMeta[r.id]
              IN  /\ r.source = (IF c.has /\ t.has THEN "both"
                                 ELSE IF c.has THEN "codes" ELSE "templates")
                  /\ c.has => (r.label = c.label /\ r.order = c.order)
                  /\ ~c.has => (r.label = t.title /\ r.order = 999999)
        /\ \A i, j \in 1..Len(rows) :
              i < j =>
                 \/ rows[i].order < rows[j].order
                 \/ /\ rows[i].order = rows[j].order
                    /\ Rank(CollationSeq, rows[i].label) <= Rank(CollationSeq, rows[j].label)

\* two rows of equal order stand in the order of their labels, against the
\* order of their ids, one of them with a label that is not its
\* template's title
C24_Witness ==
    LET rows == workTypes(codesMap, templatesMeta)
    IN  /\ Len(rows) = 2
        /\ rows[1].order = rows[2].order
        /\ rows[1].id = "t1" /\ rows[2].id = "n1"
        /\ rows[1].label = "A" /\ rows[2].label = "B"
        /\ rows[1].source = "both"

\* C25: rename and enable/disable are merge writes: rename writes the code
\* entry's label and the Template's title, enable/disable the code entry's
\* enabled flag, and nothing else; an existing code entry keeps its order
\* (and, on rename, its enabled flag; on enable/disable, its label), every
\* Template keeps its step list, no other document changes, and a rename
\* with a label that is empty after trimming writes nothing.
C25_MergeWritesKeepFields ==
    [][ /\ clast'.op = "rename" =>
              LET id == clast'.id
              IN  /\ \A x \in CatIds \ { id } :
                        codes'[x] = codes[x] /\ templates'[x] = templates[x]
                  /\ codes[id].exists =>
                        /\ codes'[id].exists
                        /\ codes[id].fields \subseteq codes'[id].fields
                        /\ codes'[id].order = codes[id].order
                        /\ codes'[id].enabled = codes[id].enabled
                  /\ templates'[id].steps = templates[id].steps
                  /\ clast'.res = "empty" => (codes' = codes /\ templates' = templates)
                  /\ clast'.res = "ok" =>
                        (codes'[id].label = templates'[id].title /\ codes'[id].label # "")
        /\ clast'.op = "enable" =>
              LET id == clast'.id
              IN  /\ templates' = templates
                  /\ \A x \in CatIds \ { id } : codes'[x] = codes[x]
                  /\ codes[id].exists =>
                        /\ codes'[id].exists
                        /\ codes[id].fields \subseteq codes'[id].fields
                        /\ codes'[id].order = codes[id].order
                        /\ codes'[id].label = codes[id].label ]_vars

\* a disabled code entry with an order has been renamed and is still
\* disabled, with its order, beside its Template's legacy steps
C25_Witness ==
    /\ clast.op = "rename" /\ clast.res = "ok" /\ clast.id = "t1"
    /\ codes["t1"].label = "B" /\ codes["t1"].order = 1
    /\ codes["t1"].enabled = FALSE
    /\ templates["t1"].title = "B" /\ templates["t1"].steps = "legacy"

C29_DeletedStaysDeleted ==
    [][ (/\ clast.op \in { "delete", "other_delete" } /\ clast.res = "ok"
         /\ ~templates[clast.id].exists
         /\ clast'.op = "save" /\ clast'.id = clast.id) =>
           ~templates'[clast.id].exists ]_vars

\* C27: whenever no load is on its way the in-memory steps and title are
\* the ones loaded for the selected work type; the answer of a load of a
\* work type that is no longer selected replaces neither; a save never
\* writes, into the Template of the selection, steps loaded for another
\* work type.
C27_MemoryFollowsSelection ==
    [][ /\ inflight' = {} => loadedFrom' = workTypeId'
        /\ (last'.op = "arrive" /\ last'.id # workTypeId) =>
               (steps' = steps /\ title' = title)
        /\ (last'.op = "save" /\ templates' # templates) =>
               loadedFrom = workTypeId ]_vars

=============================================================================
